---- MODULE Spec2Model ----
(***************************************************************************)
(* The multi-source research aggregation engine of stayfull_v1:            *)
(* ResearchOrchestrator.research_hotel and the methods it calls            *)
(* (apps/ai_agent/services/research_orchestrator.py).                      *)
(*                                                                         *)
(* Python values are modelled as follows.                                  *)
(*   - an optional value is a sequence of length <= 1: None is <<>> and a  *)
(*     value v is <<v>>;                                                   *)
(*   - a dict is a TLA+ record (a function on its keys); {} is <<>>, whose *)
(*     DOMAIN is empty; d.get(k) is Get(d, k);                             *)
(*   - a list is a sequence;                                               *)
(*   - a confidence is a whole percentage (0.85 is 85).                    *)
(***************************************************************************)
EXTENDS Integers, Sequences, FiniteSets, TLC

VARIABLES
    query,                 \* the arguments of research_hotel: hotel_name, city, state
    has_context,           \* whether self.context is set (progress tracking attached)
    research_in_progress,  \* context.task_state['_research_in_progress'] (None: key absent)
    sources,               \* context.task_state['_research_progress']['sources']
    results,               \* the local dict `results` of _launch_parallel_research
    pc,                    \* position of the coroutine research_hotel
    cur,                   \* index in LaunchOrder of the block being executed
    called,                \* the adapters whose call has been issued
    ended,                 \* how each ended adapter call ended: adapter id -> outcome
    deadline_expired,      \* whether the caller's deadline has passed
    unfinished_at_deadline,\* the adapters not yet in a terminal state at the deadline
    complete,              \* the profile research_hotel returned (None before)
    raised,                \* the exception that escaped research_hotel (None: none)
    saved,                 \* the 'sources' of the context's database row, as last saved
    loaded                 \* the 'sources' of another NoraContext instance of the same
                           \* row (None: no other instance is loaded)

vars == <<query, has_context, research_in_progress, sources, results, pc, cur,
          called, ended, deadline_expired, unfinished_at_deadline, complete, raised,
          saved, loaded>>

-----------------------------------------------------------------------------
(* Python values *)

None == <<>>

Some(v) == <<v>>

EmptyDict == <<>>

\* d.get(k): the value under k, None when the key is absent
Get(d, k) == IF k \in DOMAIN d THEN d[k] ELSE None

\* d.get(k, default)
GetOr(d, k, default) == IF k \in DOMAIN d THEN d[k] ELSE default

\* truth value of an optional string: None and "" are falsy
Truthy(x) == x # None /\ x[1] # ""

\* truth value of a dict: {} is falsy
DictTruthy(d) == DOMAIN d # {}

\* d with d[k] = v
Put(d, k, v) == [x \in DOMAIN d \cup {k} |-> IF x = k THEN v ELSE d[x]]

-----------------------------------------------------------------------------
(* The adapters *)

\* the entries of `sources` in _init_progress_tracking, in order
SourceIds == <<"perplexity", "openai", "anthropic", "gemini", "google_places", "website">>

Adapters == {SourceIds[i] : i \in 1..Len(SourceIds)}

\* the blocks of _launch_parallel_research before the website block, in order
LaunchOrder == <<"perplexity", "openai", "anthropic", "gemini", "google_places">>

NonWebsite == {LaunchOrder[i] : i \in 1..Len(LaunchOrder)}

Url == "https://inn32.com"

\* what a call of an adapter can do: raise an exception, return None, return a dict
Raise(msg) == [kind |-> "raise", msg |-> msg]

ReturnNone == [kind |-> "return_none"]

Return(d) == [kind |-> "return", value |-> d]

\* str(e) of the exceptions Python raises inside the blocks themselves
FormatNoneMsg == "unsupported format string passed to NoneType.__format__"

NoneNotIterableMsg == "argument of type 'NoneType' is not iterable"

NoneHasNoLowerMsg == "'NoneType' object has no attribute 'lower'"

NoneAddMsg == "unsupported operand type(s) for +: 'int' and 'NoneType'"

PerplexityOutcomes ==
    { Raise("perplexity unreachable"),
      Return([error |-> Some("Perplexity API not configured"), confidence |-> Some(0)]),
      Return([confidence |-> Some(85), website |-> Some(Url),
              room_types |-> << [name |-> Some("Suite"), beds |-> Some("1 King")] >>]),
      Return([confidence |-> None, website |-> Some(Url)]),
      Return([confidence |-> Some(30), website |-> None]) }

OpenAIOutcomes ==
    { Raise("openai unreachable"),
      Return([error |-> Some("OpenAI not configured")]),
      Return([room_types |-> << [name |-> None, beds |-> Some("2 Queens")] >>]),
      Return([room_types |-> << [beds |-> Some("1 King")], [name |-> Some("Suite")] >>]) }

AnthropicOutcomes ==
    { Raise("anthropic unreachable"),
      Return([error |-> Some("Anthropic not configured")]),
      Return([room_types |-> << [name |-> Some(" suite "), capacity |-> Some(2)] >>]) }

\* _research_with_gemini is a placeholder: every return is an error result
GeminiOutcomes ==
    { Raise("gemini unreachable"),
      Return([error |-> Some("Gemini not configured")]),
      Return([error |-> Some("Not implemented")]) }

GooglePlacesOutcomes ==
    { Raise("places unreachable"),
      ReturnNone,
      Return([name |-> Some("Inn 32"), website |-> Some(Url)]) }

WebsiteOutcomes ==
    { Raise("scraper crashed"),
      ReturnNone,
      Return([error |-> Some("Could not access website"), confidence |-> Some(0)]),
      Return([error |-> Some("Extraction failed"), confidence |-> None]),
      Return([confidence |-> Some(70)]) }

Outcomes(a) ==
    CASE a = "perplexity" -> PerplexityOutcomes
      [] a = "openai" -> OpenAIOutcomes
      [] a = "anthropic" -> AnthropicOutcomes
      [] a = "gemini" -> GeminiOutcomes
      [] a = "google_places" -> GooglePlacesOutcomes
      [] a = "website" -> WebsiteOutcomes

\* the queries research_hotel is called with: a well-formed one, one without a
\* hotel name, one without a city
Queries ==
    { [hotel_name |-> Some("Inn 32"), city |-> Some("North Woodstock"), state |-> Some("NH")],
      [hotel_name |-> None, city |-> Some("North Woodstock"), state |-> Some("NH")],
      [hotel_name |-> Some("Inn 32"), city |-> None, state |-> None] }

-----------------------------------------------------------------------------
(* Progress tracking *)

\* one entry of `sources` as _init_progress_tracking creates it
PendingSource(id) == [id |-> id, status |-> "pending", data_found |-> <<>>, error_message |-> None]

\* _init_progress_tracking: the list it stores
InitialSources == [i \in 1..Len(SourceIds) |-> PendingSource(SourceIds[i])]

\* the entry the loop of update_and_save stops at: the first one with this id
FirstMatch(srcs, source_id) ==
    LET hits == {i \in 1..Len(srcs) : srcs[i].id = source_id}
    IN  IF hits = {} THEN 0 ELSE CHOOSE i \in hits : \A j \in hits : i <= j

\* update_and_save: the assignments to the matching entry
UpdatedEntry(source, status, data_found, error_message) ==
    [source EXCEPT !.status = status,
                   !.data_found = IF data_found # <<>> THEN data_found ELSE @,
                   !.error_message = IF Truthy(error_message) THEN error_message ELSE @]

\* _update_source_progress with a bug: an error status appends a new entry
\* instead of updating the adapter's own
_update_source_progress_appending(srcs, source_id, status, data_found, error_message) ==
    LET i == FirstMatch(srcs, source_id)
    IN  IF ~has_context \/ i = 0 THEN srcs
        ELSE IF status = "error"
             THEN Append(srcs, UpdatedEntry(srcs[i], status, data_found, error_message))
             ELSE [srcs EXCEPT ![i] = UpdatedEntry(srcs[i], status, data_found, error_message)]

\* _update_source_progress: the new value of `sources`
_update_source_progress(srcs, source_id, status, data_found, error_message) ==
    LET i == FirstMatch(srcs, source_id)
    IN  IF ~has_context \/ i = 0
        THEN srcs
        ELSE [srcs EXCEPT ![i] = UpdatedEntry(srcs[i], status, data_found, error_message)]

\* the status of an adapter's entry ("absent" when there is none)
StatusOf(srcs, id) ==
    LET i == FirstMatch(srcs, id) IN IF i = 0 THEN "absent" ELSE srcs[i].status

-----------------------------------------------------------------------------
Init ==
    /\ query \in Queries
    /\ has_context \in BOOLEAN
    /\ research_in_progress = None
    /\ sources = <<>>
    /\ results = EmptyDict
    /\ pc = "start"
    /\ cur = 1
    /\ called = {}
    /\ ended = EmptyDict
    /\ deadline_expired = FALSE
    /\ unfinished_at_deadline = {}
    /\ complete = None
    /\ raised = None
    /\ saved = <<>>
    /\ loaded = None

\* context.save() in the orchestrator: the row takes the task_state of the
\* orchestrator's context, whatever the row held
ContextSaved ==
    /\ saved' = IF has_context THEN sources' ELSE saved
    /\ UNCHANGED loaded

\* research_hotel up to the call of _launch_parallel_research: no check of the
\* query, then _init_progress_tracking
InitProgressTracking ==
    /\ pc = "start"
    /\ research_in_progress' = IF has_context THEN Some(TRUE) ELSE research_in_progress
    /\ sources' = IF has_context THEN InitialSources ELSE sources
    /\ pc' = "launch"
    /\ UNCHANGED <<query, has_context, results, cur, called, ended,
                   deadline_expired, unfinished_at_deadline, complete, raised>>
    /\ ContextSaved

-----------------------------------------------------------------------------
(* _launch_parallel_research: one block per adapter, executed in order *)

\* what a block leaves behind: the entry of `results` and the progress update
Commit(result, status, data_found, error_message) ==
    [result |-> result, status |-> status, data_found |-> data_found,
     error_message |-> error_message]

\* the except branch of a block: results[id] = {"error": str(e)}, status error
Failed(msg) == Commit([error |-> Some(msg)], "error", <<>>, Some(msg))

\* f"{data.get('confidence', 0):.0%}" raises TypeError on None
FormatPercentRaises(d) == GetOr(d, "confidence", Some(0)) = None

PerplexityBlock(out) ==
    IF out.kind = "raise" THEN Failed(out.msg)
    ELSE IF out.kind = "return_none" THEN Failed("'NoneType' object has no attribute 'get'")
    ELSE IF FormatPercentRaises(out.value) THEN Failed(FormatNoneMsg)
    ELSE Commit(out.value, "completed",
                IF ~Truthy(Get(out.value, "error"))
                THEN <<"Description", "Amenities", "Room Types">> ELSE <<>>,
                None)

OpenAIBlock(out) ==
    IF out.kind = "raise" THEN Failed(out.msg)
    ELSE IF out.kind = "return_none" THEN Failed("'NoneType' object has no attribute 'get'")
    ELSE Commit(out.value, "completed",
                IF ~Truthy(Get(out.value, "error"))
                THEN <<"Description", "Room Types", "Policies">> ELSE <<>>,
                None)

AnthropicBlock(out) ==
    IF out.kind = "raise" THEN Failed(out.msg)
    ELSE IF out.kind = "return_none" THEN Failed("'NoneType' object has no attribute 'get'")
    ELSE Commit(out.value, "completed",
                IF ~Truthy(Get(out.value, "error"))
                THEN <<"Description", "Amenities", "Contact">> ELSE <<>>,
                None)

GeminiBlock(out) ==
    IF out.kind = "raise" THEN Failed(out.msg)
    ELSE IF out.kind = "return_none" THEN Failed("'NoneType' object has no attribute 'get'")
    ELSE IF Truthy(Get(out.value, "error"))
         THEN Commit(out.value, "error", <<>>, Get(out.value, "error"))
         ELSE Commit(out.value, "completed", <<"Search Results">>, None)

GooglePlacesBlock(out) ==
    IF out.kind = "raise" THEN Failed(out.msg)
    ELSE IF out.kind = "return_none" \/ ~DictTruthy(out.value)
         THEN Commit(EmptyDict, "error", <<>>, Some("Hotel not found"))
         ELSE Commit(out.value, "completed", <<"Address", "Phone", "Location", "Photos">>, None)

WebsiteBlock(out) ==
    IF out.kind = "raise" THEN Failed(out.msg)
    ELSE IF out.kind = "return_none" THEN Failed(NoneNotIterableMsg)
    ELSE IF "error" \notin DOMAIN out.value
         THEN IF FormatPercentRaises(out.value) THEN Failed(FormatNoneMsg)
              ELSE Commit(out.value, "completed", <<"Photos", "Description", "Contact">>, None)
         ELSE Commit(out.value, "error", <<>>, GetOr(out.value, "error", Some("Failed")))

Block(a, out) ==
    CASE a = "perplexity" -> PerplexityBlock(out)
      [] a = "openai" -> OpenAIBlock(out)
      [] a = "anthropic" -> AnthropicBlock(out)
      [] a = "gemini" -> GeminiBlock(out)
      [] a = "google_places" -> GooglePlacesBlock(out)
      [] a = "website" -> WebsiteBlock(out)

\* website_url with a bug: only perplexity's 'website' is read
WebsiteUrlPerplexityOnly(res) == Get(GetOr(res, "perplexity", EmptyDict), "website")

\* website_url: the first truthy of perplexity's and google_places' 'website'
WebsiteUrl(res) ==
    LET p == Get(GetOr(res, "perplexity", EmptyDict), "website")
        g == Get(GetOr(res, "google_places", EmptyDict), "website")
    IN  IF Truthy(p) THEN p ELSE g

\* StartCall with a bug: the in_progress update is left out
StartCallNoProgress(a) ==
    /\ pc = "launch"
    /\ cur <= Len(LaunchOrder)
    /\ LaunchOrder[cur] = a
    /\ called' = called \cup {a}
    /\ pc' = "await"
    /\ UNCHANGED <<query, has_context, research_in_progress, sources, results, cur, ended,
                   deadline_expired, unfinished_at_deadline, complete, raised>>
    /\ UNCHANGED <<saved, loaded>>

\* a block up to its adapter call: the progress entry becomes in_progress and the
\* (synchronous) call is issued
StartCall(a) ==
    /\ pc = "launch"
    /\ cur <= Len(LaunchOrder)
    /\ LaunchOrder[cur] = a
    /\ sources' = _update_source_progress(sources, a, "in_progress", <<>>, None)
    /\ called' = called \cup {a}
    /\ pc' = "await"
    /\ UNCHANGED <<query, has_context, research_in_progress, results, cur, ended,
                   deadline_expired, unfinished_at_deadline, complete, raised>>
    /\ ContextSaved

\* CallReturns with a bug: the block has no except branch, an exception of the
\* adapter ends the run
CallReturnsUncaught(a) ==
    /\ pc = "await"
    /\ cur <= Len(LaunchOrder)
    /\ LaunchOrder[cur] = a
    /\ \E out \in Outcomes(a) :
         LET c == Block(a, out)
         IN  /\ ended' = Put(ended, a, out)
             /\ IF out.kind = "raise"
                THEN /\ raised' = Some(out.msg)
                     /\ pc' = "raised"
                     /\ UNCHANGED <<results, sources, cur>>
                ELSE /\ results' = Put(results, a, c.result)
                     /\ sources' = _update_source_progress(sources, a, c.status, c.data_found,
                                                           c.error_message)
                     /\ cur' = cur + 1
                     /\ pc' = "launch"
                     /\ UNCHANGED raised
    /\ UNCHANGED <<query, has_context, research_in_progress, called,
                   deadline_expired, unfinished_at_deadline, complete>>
    /\ IF pc' = "raised" THEN UNCHANGED <<saved, loaded>> ELSE ContextSaved

\* the rest of a block: the call ends with one of the adapter's outcomes, the
\* entry of `results` is written and the progress entry updated
CallReturns(a) ==
    /\ pc = "await"
    /\ cur <= Len(LaunchOrder)
    /\ LaunchOrder[cur] = a
    /\ \E out \in Outcomes(a) :
         LET c == Block(a, out)
         IN  /\ results' = Put(results, a, c.result)
             /\ sources' = _update_source_progress(sources, a, c.status, c.data_found,
                                                   c.error_message)
             /\ ended' = Put(ended, a, out)
    /\ cur' = cur + 1
    /\ pc' = "launch"
    /\ UNCHANGED <<query, has_context, research_in_progress, called,
                   deadline_expired, unfinished_at_deadline, complete, raised>>
    /\ ContextSaved

\* the website block when a URL was found, up to extract_from_website
StartWebsite ==
    /\ pc = "launch"
    /\ cur = Len(LaunchOrder) + 1
    /\ Truthy(WebsiteUrl(results))
    /\ sources' = _update_source_progress(sources, "website", "in_progress", <<>>, None)
    /\ called' = called \cup {"website"}
    /\ pc' = "await"
    /\ UNCHANGED <<query, has_context, research_in_progress, results, cur, ended,
                   deadline_expired, unfinished_at_deadline, complete, raised>>
    /\ ContextSaved

\* the website block when a URL was found, from the return of extract_from_website
WebsiteReturns ==
    /\ pc = "await"
    /\ cur = Len(LaunchOrder) + 1
    /\ \E out \in Outcomes("website") :
         LET c == Block("website", out)
         IN  /\ results' = Put(results, "website", c.result)
             /\ sources' = _update_source_progress(sources, "website", c.status,
                                                   c.data_found, c.error_message)
             /\ ended' = Put(ended, "website", out)
    /\ pc' = "merge"
    /\ UNCHANGED <<query, has_context, research_in_progress, cur, called,
                   deadline_expired, unfinished_at_deadline, complete, raised>>
    /\ ContextSaved

\* SkipWebsite with a bug: results['website'] is not written
SkipWebsiteNoEntry ==
    /\ pc = "launch"
    /\ cur = Len(LaunchOrder) + 1
    /\ ~Truthy(WebsiteUrl(results))
    /\ sources' = _update_source_progress(sources, "website", "error", <<>>,
                                          Some("No website URL found"))
    /\ pc' = "merge"
    /\ UNCHANGED <<query, has_context, research_in_progress, results, cur, called, ended,
                   deadline_expired, unfinished_at_deadline, complete, raised>>
    /\ ContextSaved

\* SkipWebsite with a bug: the progress entry of the website is left as it is
SkipWebsiteNoProgress ==
    /\ pc = "launch"
    /\ cur = Len(LaunchOrder) + 1
    /\ ~Truthy(WebsiteUrl(results))
    /\ results' = Put(results, "website", EmptyDict)
    /\ pc' = "merge"
    /\ UNCHANGED <<query, has_context, research_in_progress, sources, cur, called, ended,
                   deadline_expired, unfinished_at_deadline, complete, raised, saved, loaded>>

\* the website block when no URL was found: no call, an empty entry, status error
SkipWebsite ==
    /\ pc = "launch"
    /\ cur = Len(LaunchOrder) + 1
    /\ ~Truthy(WebsiteUrl(results))
    /\ results' = Put(results, "website", EmptyDict)
    /\ sources' = _update_source_progress(sources, "website", "error", <<>>,
                                          Some("No website URL found"))
    /\ pc' = "merge"
    /\ UNCHANGED <<query, has_context, research_in_progress, cur, called, ended,
                   deadline_expired, unfinished_at_deadline, complete, raised>>
    /\ ContextSaved

\* the caller's deadline passes while an adapter call blocks; research_hotel takes
\* no timeout and has no code that reacts
DeadlineExpires ==
    /\ pc = "await"
    /\ ~deadline_expired
    /\ deadline_expired' = TRUE
    /\ unfinished_at_deadline' = Adapters \ DOMAIN ended
    /\ UNCHANGED <<query, has_context, research_in_progress, sources, results, pc, cur,
                   called, ended, complete, raised>>
    /\ UNCHANGED <<saved, loaded>>

-----------------------------------------------------------------------------
(* _merge_data_multi_source and its helpers *)

\* [v for v in values if v]: the truthy entries, in order
Valid(values) == SelectSeq(values, Truthy)

\* how many entries of a list equal v
Count(seq, v) == Cardinality({i \in 1..Len(seq) : seq[i] = v})

\* the index at which v was first inserted
FirstIndex(seq, v) == CHOOSE i \in 1..Len(seq) : seq[i] = v /\ \A j \in 1..(i - 1) : seq[j] # v

\* Counter(seq).most_common(1)[0][0] of a non-empty list: a value of the highest
\* count, the earliest inserted among those
MostCommon(seq) ==
    seq[CHOOSE i \in 1..Len(seq) :
          /\ FirstIndex(seq, seq[i]) = i
          /\ \A j \in 1..Len(seq) :
               \/ Count(seq, seq[j]) < Count(seq, seq[i])
               \/ Count(seq, seq[j]) = Count(seq, seq[i]) /\ i <= FirstIndex(seq, seq[j])]

\* _consensus_vote (the argument `prefer` is never read)
_consensus_vote(values) ==
    LET valid == Valid(values)
    IN  IF valid = <<>> THEN None ELSE MostCommon(valid)

\* the entries of the dict `sources` of _choose_best_with_consensus with a truthy
\* value; the dict is a list of <<source name, value>> in insertion order
TruthyEntry(entry) == Truthy(entry[2])

\* _choose_best_with_consensus with a bug: the consensus check is left out
_choose_best_by_authority(entries, authority_order) ==
    LET values == SelectSeq(entries, TruthyEntry)
        has(name) == \E i \in 1..Len(values) : values[i][1] = name
        of(name) == values[CHOOSE i \in 1..Len(values) : values[i][1] = name][2]
        ranked == {k \in 1..Len(authority_order) : has(authority_order[k])}
    IN  IF values = <<>> THEN None
        ELSE IF ranked # {}
             THEN of(authority_order[CHOOSE k \in ranked : \A m \in ranked : k <= m])
             ELSE values[1][2]

\* _choose_best_with_consensus with a bug: without consensus the first value of
\* the dict is taken, the authority order is not read
_choose_best_first_available(entries, authority_order) ==
    LET values == SelectSeq(entries, TruthyEntry)
        vals == [i \in 1..Len(values) |-> values[i][2]]
    IN  IF values = <<>> THEN None
        ELSE IF Count(vals, MostCommon(vals)) >= 2 THEN MostCommon(vals)
        ELSE vals[1]

\* _choose_best_with_consensus
_choose_best_with_consensus(entries, authority_order) ==
    LET values == SelectSeq(entries, TruthyEntry)
        vals == [i \in 1..Len(values) |-> values[i][2]]
        has(name) == \E i \in 1..Len(values) : values[i][1] = name
        of(name) == values[CHOOSE i \in 1..Len(values) : values[i][1] = name][2]
        ranked == {k \in 1..Len(authority_order) : has(authority_order[k])}
    IN  IF values = <<>> THEN None
        ELSE IF Count(vals, MostCommon(vals)) >= 2 THEN MostCommon(vals)
        ELSE IF ranked # {}
             THEN of(authority_order[CHOOSE k \in ranked : \A m \in ranked : k <= m])
             ELSE vals[1]

\* the minimum length a description must exceed (len(d) > 50)
MinDescriptionLen == 50

LongEnough(d) == Truthy(d) /\ Len(d[1]) > MinDescriptionLen

\* _choose_longest_description with a bug: len(d) >= 50 for len(d) > 50
_choose_longest_description_from_minimum(descriptions) ==
    LET atLeast(d) == Truthy(d) /\ Len(d[1]) >= MinDescriptionLen
        valid == SelectSeq(descriptions, atLeast)
    IN  IF valid = <<>> THEN None
        ELSE valid[CHOOSE i \in 1..Len(valid) :
                     /\ \A j \in 1..Len(valid) : Len(valid[j][1]) <= Len(valid[i][1])
                     /\ \A j \in 1..(i - 1) : Len(valid[j][1]) < Len(valid[i][1])]

\* _choose_longest_description: max(valid, key=len) is the first of the longest
_choose_longest_description(descriptions) ==
    LET valid == SelectSeq(descriptions, LongEnough)
    IN  IF valid = <<>> THEN None
        ELSE valid[CHOOSE i \in 1..Len(valid) :
                     /\ \A j \in 1..Len(valid) : Len(valid[j][1]) <= Len(valid[i][1])
                     /\ \A j \in 1..(i - 1) : Len(valid[j][1]) < Len(valid[i][1])]

\* name.lower().strip() on the room names the adapters of the model return
LowerStrip(s) ==
    CASE s = "Suite" -> "suite"
      [] s = " suite " -> "suite"
      [] s = "SUITE" -> "suite"
      [] s = "Deluxe King" -> "deluxe king"
      [] s = "Ocean View Suite" -> "ocean view suite"
      [] s = "   " -> ""
      [] OTHER -> s

\* truth value of a sub-field of a room record (capacity is a number)
RoomValueTruthy(key, x) == IF key = "capacity" THEN x # None /\ x[1] # 0 ELSE Truthy(x)

\* isinstance(room, dict); an item of a room list that is a str s (the website
\* extraction lists room names) is written [str |-> s]
IsDict(room) == "str" \notin DOMAIN room

\* room.get('name', '').lower() raises AttributeError when 'name' is None
RoomNameRaises(room) == IsDict(room) /\ "name" \in DOMAIN room /\ room.name = None

\* the rooms _aggregate_room_types visits: those of the non-empty lists, in order
RECURSIVE Flatten(_)
Flatten(room_lists) ==
    IF room_lists = <<>> THEN <<>> ELSE Head(room_lists) \o Flatten(Tail(room_lists))

\* whether _aggregate_room_types raises
AggregateRaises(room_lists) ==
    \E i \in 1..Len(Flatten(room_lists)) : RoomNameRaises(Flatten(room_lists)[i])

\* the merge branch: the keys of `room` fill the falsy keys of the aggregated room
FillMissing(old, room) ==
    [k \in DOMAIN old \cup {k \in DOMAIN room : RoomValueTruthy(k, room[k])} |->
        IF k \in DOMAIN room /\ RoomValueTruthy(k, room[k])
           /\ ~(k \in DOMAIN old /\ RoomValueTruthy(k, old[k]))
        THEN room[k] ELSE old[k]]

\* one iteration of the inner loop; `aggregated` is the list of its <<key, room>>
\* items in insertion order
AggregateOne(aggregated, room) ==
    LET name == LowerStrip(GetOr(room, "name", Some(""))[1])
        hit == {i \in 1..Len(aggregated) : aggregated[i][1] = name}
    IN  IF ~IsDict(room) \/ name = "" THEN aggregated
        ELSE IF hit = {} THEN Append(aggregated, <<name, room>>)
        ELSE LET i == CHOOSE i \in hit : TRUE
             IN  [aggregated EXCEPT ![i] = <<name, FillMissing(aggregated[i][2], room)>>]

RECURSIVE AggregateAll(_, _)
AggregateAll(aggregated, rooms) ==
    IF rooms = <<>> THEN aggregated
    ELSE AggregateAll(AggregateOne(aggregated, Head(rooms)), Tail(rooms))

\* _aggregate_room_types, when it does not raise: list(aggregated.values())
_aggregate_room_types(room_lists) ==
    LET aggregated == AggregateAll(<<>>, Flatten(room_lists))
    IN  [i \in 1..Len(aggregated) |-> aggregated[i][2]]

\* the room lists once _aggregate_room_types has run: `aggregated[name] = room`
\* keeps the very dict of the source, so `aggregated[name][key] = value` writes
\* into the first room of each name, in its source's list
RoomListsAfterAggregation(room_lists) ==
    LET flat == Flatten(room_lists)
        aggregated == AggregateAll(<<>>, flat)
        named(p) == IsDict(flat[p]) /\ LowerStrip(GetOr(flat[p], "name", Some(""))[1]) # ""
        name(p) == LowerStrip(GetOr(flat[p], "name", Some(""))[1])
        first(p) == named(p) /\ \A r \in 1..(p - 1) : ~(named(r) /\ name(r) = name(p))
        final(p) == LET i == CHOOSE i \in 1..Len(aggregated) : aggregated[i][1] = name(p)
                    IN  aggregated[i][2]
        offset(j) == Len(Flatten(SubSeq(room_lists, 1, j - 1)))
    IN  [j \in 1..Len(room_lists) |->
            [i \in 1..Len(room_lists[j]) |->
                IF first(offset(j) + i) THEN final(offset(j) + i) ELSE room_lists[j][i]]]

\* the order in which the fallback hands the room lists to _aggregate_room_types
AggregatedSources == <<"openai", "anthropic", "gemini", "website">>

\* source_results once _merge_data_multi_source has run
ResultsAfterMerge(res) ==
    LET rooms(a) == GetOr(GetOr(res, a, EmptyDict), "room_types", <<>>)
        after == RoomListsAfterAggregation([j \in 1..4 |-> rooms(AggregatedSources[j])])
        index(a) == CHOOSE j \in 1..4 : AggregatedSources[j] = a
    IN  IF rooms("perplexity") # <<>> THEN res
        ELSE [a \in DOMAIN res |->
                 IF a \in {"openai", "anthropic", "gemini", "website"} /\ rooms(a) # <<>>
                 THEN [res[a] EXCEPT !.room_types = after[index(a)]]
                 ELSE res[a]]

\* a list of numbers in ascending order
RECURSIVE SortedInsert(_, _)
SortedInsert(sorted, n) ==
    IF sorted = <<>> THEN <<n>>
    ELSE IF n <= Head(sorted) THEN <<n>> \o sorted
    ELSE <<Head(sorted)>> \o SortedInsert(Tail(sorted), n)

RECURSIVE Sorted(_)
Sorted(seq) == IF seq = <<>> THEN <<>> ELSE SortedInsert(Sorted(Tail(seq)), Head(seq))

IsNumber(x) == x # None

\* _numeric_consensus with a bug: the first value is returned, not the median
_numeric_first_available(values) ==
    LET valid == SelectSeq(values, IsNumber)
    IN  IF valid = <<>> THEN None ELSE valid[1]

\* _numeric_consensus: int(statistics.median(valid)) of non-negative counts
_numeric_consensus(values) ==
    LET valid == SelectSeq(values, IsNumber)
        nums == Sorted([i \in 1..Len(valid) |-> valid[i][1]])
        n == Len(nums)
    IN  IF n = 0 THEN None
        ELSE IF n = 1 THEN valid[1]
        ELSE IF n % 2 = 1 THEN Some(nums[(n + 1) \div 2])
        ELSE Some((nums[n \div 2] + nums[n \div 2 + 1]) \div 2)

\* _choose_best, called on the photo lists: the first value that is not None or []
NotEmptyValue(x) == x # <<>>

_choose_best(values) ==
    LET ok == SelectSeq(values, NotEmptyValue)
    IN  IF ok = <<>> THEN None ELSE ok[1]

\* source_data.get('amenities') or []
AmenitiesOf(d) == GetOr(d, "amenities", <<>>)

\* set(all_amenities) with a bug: the amenities are deduplicated whatever their case
ElemsCaseFolded(seq) ==
    {IF seq[i] \in {"WiFi", "wifi"} THEN "wifi" ELSE seq[i] : i \in 1..Len(seq)}

\* the elements of a list
Elems(seq) == {seq[i] : i \in 1..Len(seq)}

\* the first truthy dict of a list, {} when there is none
RECURSIVE FirstDict(_)
FirstDict(dicts) ==
    IF dicts = <<>> THEN EmptyDict
    ELSE IF DictTruthy(Head(dicts)) THEN Head(dicts) ELSE FirstDict(Tail(dicts))

\* whether _merge_data_multi_source raises: its only call that can, on the
\* values of the model, is _aggregate_room_types
MergeRaises(perplexity, openai, anthropic, gemini, google_places, website) ==
    /\ GetOr(perplexity, "room_types", <<>>) = <<>>
    /\ AggregateRaises(<<GetOr(openai, "room_types", <<>>), GetOr(anthropic, "room_types", <<>>),
                         GetOr(gemini, "room_types", <<>>), GetOr(website, "room_types", <<>>)>>)

\* _merge_data_multi_source, when it does not raise. list(set(...)) has no
\* defined order: amenities is a set. The GPS keys exist only with a location.
_merge_data_multi_source(perplexity, openai, anthropic, gemini, google_places, website) ==
    LET perplexity_rooms == GetOr(perplexity, "room_types", <<>>)
        ai == <<perplexity, openai, anthropic, gemini>>
        scalar(k) == [i \in 1..4 |-> Get(ai[i], k)]
        base ==
          [hotel_name |-> _consensus_vote(<<Get(google_places, "name"), Get(perplexity, "hotel_name"),
                              Get(openai, "hotel_name"), Get(anthropic, "hotel_name"),
                              Get(gemini, "hotel_name"), Get(website, "hotel_name")>>),
           address |-> _choose_best_with_consensus(
                         << <<"Google Places", Get(google_places, "address")>>,
                            <<"Perplexity", Get(perplexity, "address")>>,
                            <<"OpenAI", Get(openai, "address")>>,
                            <<"Anthropic", Get(anthropic, "address")>>,
                            <<"Gemini", Get(gemini, "address")>>,
                            <<"Website", Get(website, "address")>> >>,
                         <<"Google Places", "Perplexity", "Anthropic", "OpenAI", "Website">>),
           phone |-> _choose_best_with_consensus(
                         << <<"Google Places", Get(google_places, "phone")>>,
                            <<"Perplexity", Get(perplexity, "phone")>>,
                            <<"OpenAI", Get(openai, "phone")>>,
                            <<"Anthropic", Get(anthropic, "phone")>>,
                            <<"Gemini", Get(gemini, "phone")>>,
                            <<"Website", Get(website, "phone")>> >>,
                         <<"Google Places", "Perplexity", "Anthropic", "OpenAI", "Website">>),
           website |-> _choose_best_with_consensus(
                         << <<"Perplexity", Get(perplexity, "website")>>,
                            <<"OpenAI", Get(openai, "website")>>,
                            <<"Anthropic", Get(anthropic, "website")>>,
                            <<"Gemini", Get(gemini, "website")>>,
                            <<"Google Places", Get(google_places, "website")>>,
                            <<"Website", Get(website, "website")>> >>,
                         <<"Perplexity", "Google Places", "Anthropic", "OpenAI", "Website">>),
           description |-> _choose_longest_description(
                         <<Get(perplexity, "description"), Get(openai, "description"),
                           Get(anthropic, "description"), Get(gemini, "description"),
                           Get(website, "description")>>),
           _source_description |-> Some("AI aggregation"),
           room_types |-> IF perplexity_rooms # <<>> THEN perplexity_rooms
                          ELSE _aggregate_room_types(
                                 <<GetOr(openai, "room_types", <<>>), GetOr(anthropic, "room_types", <<>>),
                                   GetOr(gemini, "room_types", <<>>), GetOr(website, "room_types", <<>>)>>),
           _source_room_types |-> IF perplexity_rooms # <<>> THEN Some("Perplexity (web-grounded)")
                                  ELSE Some("AI aggregation (fallback)"),
           amenities |-> UNION {Elems(AmenitiesOf(d)) :
                                  d \in {perplexity, openai, anthropic, gemini, google_places, website}},
           _source_amenities |-> <<"Aggregated from",
                                   Cardinality({i \in 1..5 :
                                      AmenitiesOf(<<perplexity, openai, anthropic, gemini, website>>[i]) # <<>>}),
                                   "sources">>,
           photos |-> _choose_best(<<Get(google_places, "photos"), Get(website, "photos")>>),
           total_rooms |-> _numeric_consensus(scalar("total_rooms")),
           check_in_time |-> _consensus_vote(scalar("check_in_time")),
           check_out_time |-> _consensus_vote(scalar("check_out_time")),
           policies |-> FirstDict(<<GetOr(perplexity, "policies", EmptyDict),
                                    GetOr(openai, "policies", EmptyDict),
                                    GetOr(anthropic, "policies", EmptyDict),
                                    GetOr(gemini, "policies", EmptyDict)>>)]
        location == GetOr(google_places, "location", EmptyDict)
    IN  IF DictTruthy(location)
        THEN Put(Put(Put(base, "latitude", Get(location, "lat")),
                     "longitude", Get(location, "lng")),
                 "_source_gps", Some("Google Places"))
        ELSE base

-----------------------------------------------------------------------------
(* _apply_defaults and its collaborators *)

\* infer_timezone_from_location: the id the lookup gives, "America/New_York" being
\* what it returns without a client or on any failure
infer_timezone_from_location(lat, lng) == "America/New_York"

\* us_tax_rates of infer_smart_defaults, in tenths of a percent (13.0 is 130)
us_tax_rates ==
    ("AL" :> 100) @@ ("AK" :> 50) @@ ("AZ" :> 108) @@ ("AR" :> 126) @@ ("CA" :> 105) @@
    ("CO" :> 104) @@ ("CT" :> 150) @@ ("DE" :> 80) @@ ("FL" :> 130) @@ ("GA" :> 130) @@
    ("HI" :> 144) @@ ("ID" :> 90) @@ ("IL" :> 116) @@ ("IN" :> 120) @@ ("IA" :> 120) @@
    ("KS" :> 113) @@ ("KY" :> 113) @@ ("LA" :> 140) @@ ("ME" :> 95) @@ ("MD" :> 115) @@
    ("MA" :> 117) @@ ("MI" :> 110) @@ ("MN" :> 139) @@ ("MS" :> 122) @@ ("MO" :> 125) @@
    ("MT" :> 70) @@ ("NE" :> 125) @@ ("NV" :> 134) @@ ("NH" :> 90) @@ ("NJ" :> 136) @@
    ("NM" :> 129) @@ ("NY" :> 148) @@ ("NC" :> 128) @@ ("ND" :> 120) @@ ("OH" :> 145) @@
    ("OK" :> 135) @@ ("OR" :> 115) @@ ("PA" :> 114) @@ ("RI" :> 130) @@ ("SC" :> 121) @@
    ("SD" :> 100) @@ ("TN" :> 153) @@ ("TX" :> 170) @@ ("UT" :> 123) @@ ("VT" :> 100) @@
    ("VA" :> 108) @@ ("WA" :> 156) @@ ("WV" :> 120) @@ ("WI" :> 134) @@ ("WY" :> 100)

\* the rate of a state the table does not hold, and of a call without a state
DefaultTaxRate == 100

\* state.upper() on the state codes the model passes
Upper(s) ==
    CASE s = "fl" -> "FL"
      [] s = "nh" -> "NH"
      [] s = "Ny" -> "NY"
      [] OTHER -> s

\* infer_smart_defaults with a bug: the rate is a fraction of 1 (13.0% is 0.13),
\* kept here in the same tenths of a percent and so rounded down to 0
infer_smart_defaults_as_fraction(state, city) ==
    [currency |-> Some("USD"),
     tax_rate |-> IF Truthy(state) /\ Upper(state[1]) \in DOMAIN us_tax_rates
                  THEN Some(us_tax_rates[Upper(state[1])] \div 100)
                  ELSE Some(DefaultTaxRate \div 100),
     language |-> Some("en")]

\* infer_smart_defaults(country="United States", state, city)
infer_smart_defaults(state, city) ==
    [currency |-> Some("USD"),
     tax_rate |-> IF Truthy(state)
                  THEN IF Upper(state[1]) \in DOMAIN us_tax_rates
                       THEN Some(us_tax_rates[Upper(state[1])]) ELSE Some(DefaultTaxRate)
                  ELSE Some(DefaultTaxRate),
     language |-> Some("en")]

\* truth value of an optional number: None and 0 are falsy
TruthyNum(x) == x # None /\ x[1] # 0

\* WithDefault with a bug: the default and its tag are written whether or not the
\* field is absent
WithDefaultAlways(data, absent, key, value, tag_key, tag) ==
    Put(Put(data, key, value), tag_key, Some(tag))

\* one default of _apply_defaults: when `absent`, the value and its provenance tag
WithDefault(data, absent, key, value, tag_key, tag) ==
    IF absent THEN Put(Put(data, key, value), tag_key, Some(tag)) ELSE data

\* _apply_defaults
_apply_defaults(data, city, state) ==
    LET defaults == infer_smart_defaults(state, city)
        d1 == WithDefault(data,
                /\ TruthyNum(Get(data, "latitude"))
                /\ TruthyNum(Get(data, "longitude"))
                /\ ~Truthy(Get(data, "timezone")),
                "timezone",
                Some(infer_timezone_from_location(Get(data, "latitude"), Get(data, "longitude"))),
                "_source_timezone", "GPS inference")
        d2 == WithDefault(d1, ~Truthy(Get(d1, "currency")), "currency", defaults.currency,
                          "_source_currency", "Location inference")
        d3 == WithDefault(d2, ~TruthyNum(Get(d2, "tax_rate")), "tax_rate", defaults.tax_rate,
                          "_source_tax_rate", "Location inference")
        d4 == WithDefault(d3, ~Truthy(Get(d3, "check_in_time")), "check_in_time", Some("3:00 PM"),
                          "_source_check_in", "Industry standard")
        d5 == WithDefault(d4, ~Truthy(Get(d4, "check_out_time")), "check_out_time", Some("11:00 AM"),
                          "_source_check_out", "Industry standard")
    IN  WithDefault(d5, ~Truthy(Get(d5, "language")), "language", Some("en"),
                    "_source_language", "Default")

-----------------------------------------------------------------------------
(* _calculate_overall_confidence *)

\* the score is kept as a whole number of 1/21000ths: one source in six is
\* 0.4/6 = 1400/21000, one field in seven is 0.4/7 = 1200/21000, and a percentage
\* point of the two averaged confidences is 0.2/200 = 21/21000
ConfidenceScale == 21000

SourceUnit == 1400

FieldUnit == 1200

ConfidenceUnit == 21

\* result and 'error' not in result
Succeeded(result) == DictTruthy(result) /\ "error" \notin DOMAIN result

\* FieldPresent with a bug: the field is tested against None, not for truthiness
FieldNotNone(data, field) ==
    \/ field \in {"room_types", "amenities"}
    \/ Get(data, field) # None

\* data.get(field) is truthy, for each of critical_fields
FieldPresent(data, field) ==
    CASE field = "room_types" -> Get(data, field) # <<>>
      [] field = "amenities" -> GetOr(data, field, {}) # {}
      [] OTHER -> Truthy(Get(data, field))

critical_fields == {"hotel_name", "address", "phone", "website", "description",
                    "room_types", "amenities"}

\* perplexity_conf + website_conf raises TypeError when one of them is None
ConfidenceRaises(source_results) ==
    \/ GetOr(GetOr(source_results, "perplexity", EmptyDict), "confidence", Some(0)) = None
    \/ GetOr(GetOr(source_results, "website", EmptyDict), "confidence", Some(0)) = None

Min(a, b) == IF a <= b THEN a ELSE b

\* _calculate_overall_confidence with a bug: the two confidences are added, not
\* averaged, and the total is not capped
_calculate_overall_confidence_uncapped(data, source_results) ==
    LET sources_succeeded ==
            Cardinality({k \in DOMAIN source_results : Succeeded(source_results[k])})
        fields_present == Cardinality({f \in critical_fields : FieldPresent(data, f)})
        perplexity_conf ==
            GetOr(GetOr(source_results, "perplexity", EmptyDict), "confidence", Some(0))[1]
        website_conf ==
            GetOr(GetOr(source_results, "website", EmptyDict), "confidence", Some(0))[1]
    IN  sources_succeeded * SourceUnit + fields_present * FieldUnit
        + (perplexity_conf + website_conf) * 2 * ConfidenceUnit

\* _calculate_overall_confidence with a bug: the average is taken over the results
\* that carry a confidence, not over perplexity and website
_calculate_overall_confidence_of_reporting(data, source_results) ==
    LET sources_succeeded ==
            Cardinality({k \in DOMAIN source_results : Succeeded(source_results[k])})
        fields_present == Cardinality({f \in critical_fields : FieldPresent(data, f)})
        reporting == {k \in DOMAIN source_results :
                          Get(source_results[k], "confidence") # None}
        conf(k) == IF k \in reporting THEN source_results[k].confidence[1] ELSE 0
        total == sources_succeeded * SourceUnit + fields_present * FieldUnit
                 + IF reporting = {} THEN 0
                   ELSE (2 * ConfidenceUnit * (conf("perplexity") + conf("website")))
                            \div Cardinality(reporting)
    IN  Min(total, ConfidenceScale)

\* _calculate_overall_confidence, when it does not raise
_calculate_overall_confidence(data, source_results) ==
    LET sources_succeeded ==
            Cardinality({k \in DOMAIN source_results : Succeeded(source_results[k])})
        fields_present == Cardinality({f \in critical_fields : FieldPresent(data, f)})
        perplexity_conf ==
            GetOr(GetOr(source_results, "perplexity", EmptyDict), "confidence", Some(0))[1]
        website_conf ==
            GetOr(GetOr(source_results, "website", EmptyDict), "confidence", Some(0))[1]
        total == sources_succeeded * SourceUnit + fields_present * FieldUnit
                 + (perplexity_conf + website_conf) * ConfidenceUnit
    IN  Min(total, ConfidenceScale)

-----------------------------------------------------------------------------
(* research_hotel after _launch_parallel_research *)

\* the exception, if any, that phases 2 to 4 raise
PipelineError(res) ==
    IF MergeRaises(GetOr(res, "perplexity", EmptyDict), GetOr(res, "openai", EmptyDict),
                   GetOr(res, "anthropic", EmptyDict), GetOr(res, "gemini", EmptyDict),
                   GetOr(res, "google_places", EmptyDict), GetOr(res, "website", EmptyDict))
    THEN Some(NoneHasNoLowerMsg)
    ELSE IF ConfidenceRaises(res) THEN Some(NoneAddMsg)
    ELSE None

\* [k for k, v in results.items() if v and 'error' not in v]
SourcesUsed(res) ==
    LET used(k) == k \in DOMAIN res /\ Succeeded(res[k])
    IN  SelectSeq(SourceIds, used)

\* the dict research_hotel returns
Profile(res, q) ==
    LET merged == _merge_data_multi_source(
                      GetOr(res, "perplexity", EmptyDict), GetOr(res, "openai", EmptyDict),
                      GetOr(res, "anthropic", EmptyDict), GetOr(res, "gemini", EmptyDict),
                      GetOr(res, "google_places", EmptyDict), GetOr(res, "website", EmptyDict))
        defaulted == _apply_defaults(merged, q.city, q.state)
        confidence == _calculate_overall_confidence(defaulted, res)
    IN  Put(Put(Put(Put(Put(defaulted,
            "_overall_confidence", confidence),
            "_sources_used", SourcesUsed(res)),
            "_hotel_name_searched", q.hotel_name),
            "_city_searched", q.city),
            "_state_searched", q.state)

\* phases 2 to 5 run through: the profile is returned, the room dicts that the
\* aggregation wrote into are changed in `results`, and, with a context,
\* _research_in_progress is set to False
MergeAndReturn ==
    /\ pc = "merge"
    /\ PipelineError(results) = None
    /\ complete' = Some(Profile(results, query))
    /\ results' = ResultsAfterMerge(results)
    /\ research_in_progress' = IF has_context THEN Some(FALSE) ELSE research_in_progress
    /\ pc' = "returned"
    /\ UNCHANGED <<query, has_context, sources, cur, called, ended,
                   deadline_expired, unfinished_at_deadline, raised>>
    /\ ContextSaved

\* one of phases 2 to 4 raises: nothing catches it, research_hotel raises
MergeRaisesOut ==
    /\ pc = "merge"
    /\ PipelineError(results) # None
    /\ raised' = PipelineError(results)
    /\ pc' = "raised"
    /\ UNCHANGED <<query, has_context, research_in_progress, sources, results, cur, called,
                   ended, deadline_expired, unfinished_at_deadline, complete>>
    /\ UNCHANGED <<saved, loaded>>

-----------------------------------------------------------------------------
Next ==
    \/ InitProgressTracking
    \/ \E a \in NonWebsite : StartCall(a)
    \/ \E a \in NonWebsite : CallReturns(a)
    \/ StartWebsite
    \/ WebsiteReturns
    \/ SkipWebsite
    \/ DeadlineExpires
    \/ MergeAndReturn
    \/ MergeRaisesOut

Spec == Init /\ [][Next]_vars

-----------------------------------------------------------------------------
(* research_hotel from the return of _launch_parallel_research on: the merge  *)
(* pipeline applied to the answers the adapters can give                      *)

\* a key an answer may leave out: Absent is "no such key", Holding(v) is "the key
\* holds v" (v being None for a JSON null)
Absent == <<>>

Holding(v) == <<v>>

WithKey(d, k, c) == IF c = Absent THEN d ELSE Put(d, k, c[1])

\* the keys every answer of an adapter carries besides the researched fields
PerplexityBase == [confidence |-> Some(85), _source |-> Some("perplexity"), website |-> Some(Url)]

OpenAIBase == [_source |-> Some("openai")]

AnthropicBase == [_source |-> Some("anthropic")]

GeminiAnswer == [error |-> Some("Not implemented")]

PlacesBase == [place_id |-> Some("ChIJ-inn32")]

WebsiteBase == [confidence |-> Some(50), source_url |-> Some(Url), domain |-> Some("inn32.com")]

\* the JSON an AI model answers may hold an "error" key next to its fields:
\* json.loads(content) is returned as it is
WithError(d, errored) == IF errored THEN Put(d, "error", Some("could not verify")) ELSE d

\* the results of the six adapters, one answer each
Answers(p, o, a, g, w) ==
    [perplexity |-> p, openai |-> o, anthropic |-> a, gemini |-> GeminiAnswer,
     google_places |-> g, website |-> w]

\* the values of a scalar field the adapters answer with
PerplexityValues ==
    {Absent, Holding(None), Holding(Some("")), Holding(Some("v1")), Holding(Some("v2"))}

OpenAIValues == {Absent, Holding(Some("v1")), Holding(Some("v2")), Holding(Some("v3"))}

AnthropicValues == {Absent, Holding(Some("v2")), Holding(Some("v3"))}

PlacesValues == {Absent, Holding(Some("v1")), Holding(Some("v3"))}

WebsiteValues == {Absent, Holding(Some("v2"))}

\* answers that differ in one scalar field; google_places names it places_key
ScalarAnswers(key, places_key, PV, OV, AV, GV, WV) ==
    { Answers(WithKey(PerplexityBase, key, p),
              WithError(WithKey(OpenAIBase, key, o), e),
              WithKey(AnthropicBase, key, a),
              WithKey(PlacesBase, places_key, g),
              WithKey(WebsiteBase, key, w)) :
        p \in PV, o \in OV, e \in BOOLEAN, a \in AV, g \in GV, w \in WV }

\* descriptions of 40, 50, 51, 80, 80 and 120 characters
Description40 ==
    "Forty: A quiet inn by the river with mou"

Description50 ==
    "Fifty: A quiet inn by the river with mountain view"

Description51 ==
    "Fifty-one: A quiet inn by the river with mountain v"

Description80 ==
    "Eighty: A quiet inn by the river with mountain views and a warm welcome for ever"

Description80b ==
    "Eighty again: A quiet inn by the river with mountain views and a warm welcome fo"

Description120 ==
    "Long: A quiet inn by the river with mountain views and a warm welcome for every guest who stays. A quiet inn by the rive"

\* answers that differ in their descriptions
DescriptionAnswers ==
    { Answers(WithKey(PerplexityBase, "description", p),
              WithKey(OpenAIBase, "description", o),
              WithKey(AnthropicBase, "description", a),
              PlacesBase,
              WithKey(WebsiteBase, "description", w)) :
        p \in {Absent, Holding(None), Holding(Some(Description40)), Holding(Some(Description51)),
               Holding(Some(Description120))},
        o \in {Absent, Holding(Some(Description50)), Holding(Some(Description80))},
        a \in {Absent, Holding(Some(Description80b)), Holding(Some(Description120))},
        w \in {Absent, Holding(Some(Description40)), Holding(Some(Description51))} }

\* a room record of the AI answers
Room(name, beds) == [name |-> name, beds |-> beds]

\* answers that differ in their room types
RoomAnswers ==
    { Answers(WithKey(PerplexityBase, "room_types", p),
              WithKey(OpenAIBase, "room_types", o),
              WithKey(AnthropicBase, "room_types", a),
              PlacesBase,
              WithKey(WebsiteBase, "room_types", w)) :
        p \in {Absent, Holding(<<>>), Holding(<<Room(Some("Suite"), Some("1 King"))>>)},
        o \in {Absent,
               Holding(<<[beds |-> Some("1 King")],
                         [name |-> Some("Suite"), beds |-> None, capacity |-> Some(0)]>>),
               Holding(<<Room(None, Some("2 Queens"))>>),
               Holding(<<Room(Some("SUITE"), Some("2 Queens")), [name |-> Some("   ")]>>)},
        a \in {Absent,
               Holding(<<[name |-> Some(" suite "), beds |-> Some("1 King"),
                          capacity |-> Some(2)]>>),
               Holding(<<Room(Some("Deluxe King"), None)>>)},
        w \in {Absent,
               Holding(<<[str |-> "Ocean View Suite"], [str |-> "Deluxe King"]>>),
               Holding(<<Room(Some("Deluxe King"), Some("1 King"))>>)} }

\* answers that differ in their total room count
TotalRoomsAnswers ==
    { Answers(WithKey(PerplexityBase, "total_rooms", p),
              WithError(WithKey(OpenAIBase, "total_rooms", o), e),
              WithKey(AnthropicBase, "total_rooms", a),
              PlacesBase, WebsiteBase) :
        p \in {Absent, Holding(None), Holding(Some(17)), Holding(Some(20))},
        o \in {Absent, Holding(Some(17)), Holding(Some(18)), Holding(Some(40))},
        e \in BOOLEAN,
        a \in {Absent, Holding(Some(20)), Holding(Some(25))} }

\* answers that differ in their amenities
AmenitiesAnswers ==
    { Answers(WithKey(PerplexityBase, "amenities", p),
              WithError(WithKey(OpenAIBase, "amenities", o), e),
              WithKey(AnthropicBase, "amenities", a),
              PlacesBase,
              WithKey(WebsiteBase, "amenities", w)) :
        p \in {Absent, Holding(None), Holding(<<"WiFi", "Pool">>)},
        o \in {Absent, Holding(<<"Pool", "Spa", "WiFi">>), Holding(<<"wifi">>)},
        e \in BOOLEAN,
        a \in {Absent, Holding(<<"Pool", "Pool">>)},
        w \in {Absent, Holding(<<"Parking">>)} }

\* an answer with every field, and the error result, of each adapter
PerplexityFull ==
    [confidence |-> Some(100), _source |-> Some("perplexity"), website |-> Some(Url),
     description |-> Some(Description120), address |-> Some("v1"), phone |-> Some("v1"),
     amenities |-> <<"WiFi", "Pool", "Parking", "Bar">>,
     room_types |-> <<Room(Some("Suite"), Some("1 King"))>>, total_rooms |-> Some(17),
     check_in_time |-> Some("v1"), check_out_time |-> Some("v1"),
     policies |-> [cancellation |-> Some("24 hours")]]

PerplexityError == [error |-> Some("Perplexity API not configured"), confidence |-> Some(0)]

OpenAIFull ==
    [_source |-> Some("openai"), website |-> Some(Url), description |-> Some(Description80),
     address |-> Some("v1"), phone |-> Some("v2"), amenities |-> <<"WiFi", "Spa">>,
     room_types |-> <<Room(Some("Suite"), Some("2 Queens"))>>, total_rooms |-> Some(18),
     check_in_time |-> Some("v2"), check_out_time |-> Some("v1")]

OpenAIError == [error |-> Some("OpenAI not configured")]

AnthropicFull ==
    [_source |-> Some("anthropic"), website |-> Some(Url), description |-> Some(Description80b),
     address |-> Some("v2"), phone |-> Some("v2"), amenities |-> <<"Pool">>,
     room_types |-> <<Room(Some("Deluxe King"), Some("1 King"))>>, total_rooms |-> Some(20),
     check_in_time |-> Some("v2"), check_out_time |-> Some("v3")]

AnthropicError == [error |-> Some("Anthropic not configured")]

PlacesFull ==
    [place_id |-> Some("ChIJ-inn32"), name |-> Some("Inn 32"), address |-> Some("v3"),
     phone |-> Some("v3"), website |-> Some(Url), location |-> [lat |-> Some(44), lng |-> Some(-71)],
     photos |-> <<"photo-1", "photo-2">>]

WebsiteFull(confidence) ==
    [confidence |-> Some(confidence), source_url |-> Some(Url), domain |-> Some("inn32.com"),
     hotel_name |-> Some("Inn 32"), address |-> Some("v3"), phone |-> Some("v1"),
     description |-> Some(Description51), amenities |-> <<"Parking">>,
     room_types |-> <<[str |-> "Deluxe King"]>>]

WebsiteError == [error |-> Some("Could not access website"), confidence |-> Some(0)]

\* answers in which each adapter either found everything or failed, openai also
\* with an "error" key next to its fields; google_places fails by returning None,
\* written EmptyDict here
FullAnswers ==
    { Answers(p, o, a, g, w) :
        p \in {PerplexityFull, PerplexityError},
        o \in {OpenAIFull, OpenAIError, WithError(OpenAIFull, TRUE)},
        a \in {AnthropicFull, AnthropicError},
        g \in {PlacesFull, EmptyDict},
        w \in {WebsiteFull(90), WebsiteFull(0), WebsiteError} }

\* the answers the merge pipeline is applied to
MergeInputs ==
    ScalarAnswers("address", "address", PerplexityValues, OpenAIValues, AnthropicValues,
                  PlacesValues, WebsiteValues)
    \cup ScalarAnswers("phone", "phone", PerplexityValues, OpenAIValues, AnthropicValues,
                       PlacesValues, WebsiteValues)
    \cup ScalarAnswers("website", "website", PerplexityValues, OpenAIValues, AnthropicValues,
                       PlacesValues, {Absent})
    \cup ScalarAnswers("hotel_name", "name", {Absent}, {Absent}, {Absent},
                       PlacesValues, WebsiteValues)
    \cup ScalarAnswers("check_in_time", "check_in_time", PerplexityValues, OpenAIValues,
                       AnthropicValues, {Absent}, {Absent})
    \cup ScalarAnswers("check_out_time", "check_out_time", PerplexityValues, OpenAIValues,
                       AnthropicValues, {Absent}, {Absent})
    \cup DescriptionAnswers \cup RoomAnswers \cup TotalRoomsAnswers \cup AmenitiesAnswers
    \cup FullAnswers

\* the outcome of the adapter call that gave an answer
AsOutcome(d) == IF d = EmptyDict THEN ReturnNone ELSE Return(d)

\* `results` as _launch_parallel_research returns it when the calls of the adapters
\* end with the outcomes outs: the blocks in order, then the website block
LaunchResults(outs) ==
    LET first == [a \in NonWebsite |-> Block(a, outs[a]).result]
    IN  IF Truthy(WebsiteUrl(first))
        THEN Put(first, "website", Block("website", outs["website"]).result)
        ELSE Put(first, "website", EmptyDict)

\* the query of the runs whose merge is examined
MergeQuery ==
    [hotel_name |-> Some("Inn 32"), city |-> Some("North Woodstock"), state |-> Some("NH")]

\* research_hotel, called without a context, when _launch_parallel_research has
\* returned
MergeInitFrom(inputs, queries) ==
    \E answers \in inputs, q \in queries :
        LET outs == [a \in Adapters |-> AsOutcome(answers[a])]
            first == [a \in NonWebsite |-> Block(a, outs[a]).result]
            scraped == Truthy(WebsiteUrl(first))
        IN  /\ query = q
            /\ has_context = FALSE
            /\ research_in_progress = None
            /\ sources = <<>>
            /\ results = LaunchResults(outs)
            /\ pc = "merge"
            /\ cur = Len(LaunchOrder) + 1
            /\ called = IF scraped THEN Adapters ELSE NonWebsite
            /\ ended = IF scraped THEN outs ELSE [a \in NonWebsite |-> outs[a]]
            /\ deadline_expired = FALSE
            /\ unfinished_at_deadline = {}
            /\ complete = None
            /\ raised = None
            /\ saved = <<>>
            /\ loaded = None

\* the queries of the runs whose defaults are examined: states of the table in
\* upper and lower case, a code the table does not hold, an empty and a missing state
StateQueries ==
    { [hotel_name |-> Some("Inn 32"), city |-> Some("North Woodstock"), state |-> st] :
        st \in {Some("FL"), Some("NY"), Some("CA"), Some("fl"), Some("ZZ"), Some(""), None} }

\* the answers those runs merge: every adapter found everything, or every one failed
StateInputs ==
    {Answers(PerplexityFull, OpenAIFull, AnthropicFull, PlacesFull, WebsiteFull(90)),
     Answers(PerplexityError, OpenAIError, AnthropicError, EmptyDict, WebsiteError)}

MergeInit ==
    \/ MergeInitFrom(MergeInputs, {MergeQuery})
    \/ MergeInitFrom(StateInputs, StateQueries)

MergeNext == MergeAndReturn \/ MergeRaisesOut

MergeSpec == MergeInit /\ [][MergeNext]_vars

\* NoraAgent.__init__ of another request: get_or_create loads the row of the same
\* user and organization into a NoraContext instance of its own
OtherLoads ==
    /\ has_context
    /\ loaded' = Some(saved)
    /\ UNCHANGED <<query, has_context, research_in_progress, sources, results, pc, cur,
                   called, ended, deadline_expired, unfinished_at_deadline, complete, raised,
                   saved>>

\* that request's update_task_state(self.context.task_state): task_state.update
\* and save() write the whole task_state of its instance over the row
OtherSaves ==
    /\ loaded # None
    /\ saved' = loaded[1]
    /\ UNCHANGED <<query, has_context, research_in_progress, sources, results, pc, cur,
                   called, ended, deadline_expired, unfinished_at_deadline, complete, raised,
                   loaded>>

\* the outcomes of the adapter calls of the runs another request interleaves with
SharedOutcomes ==
    { Raise("perplexity unreachable"),
      Return([confidence |-> Some(85), website |-> Some(Url),
              room_types |-> << [name |-> Some("Suite"), beds |-> Some("1 King")] >>]),
      Return([confidence |-> Some(30), website |-> None]),
      Raise("openai unreachable"), Return([error |-> Some("OpenAI not configured")]),
      Raise("anthropic unreachable"),
      Return([room_types |-> << [name |-> Some(" suite "), capacity |-> Some(2)] >>]),
      Raise("gemini unreachable"), Return([error |-> Some("Not implemented")]),
      ReturnNone, Return([name |-> Some("Inn 32"), website |-> Some(Url)]),
      Raise("scraper crashed"), Return([confidence |-> Some(70)]) }

\* research_hotel called with a context, while requests of the same user load and
\* save the same row
SharedInit == Init /\ has_context /\ query = MergeQuery

SharedNext ==
    \/ InitProgressTracking
    \/ \E a \in NonWebsite : StartCall(a)
    \/ \E a \in NonWebsite : CallReturns(a) /\ ended'[a] \in SharedOutcomes
    \/ StartWebsite
    \/ WebsiteReturns /\ ended'["website"] \in SharedOutcomes
    \/ SkipWebsite
    \/ MergeAndReturn
    \/ OtherLoads
    \/ OtherSaves

SharedSpec == SharedInit /\ [][SharedNext]_vars

\* the same pipeline on the answers for which every completion order is examined
OrderInputs == FullAnswers \cup RoomAnswers

OrderInit == MergeInitFrom(OrderInputs, {MergeQuery})

OrderSpec == OrderInit /\ [][MergeNext]_vars

-----------------------------------------------------------------------------
(* Properties *)

\* _launch_parallel_research has returned
LaunchDone == pc \in {"merge", "returned", "raised"}

\* the progress entry of an adapter
Entry(id) == sources[FirstMatch(sources, id)]

\* the adapter's entry of `results` carries a non-null error
ErrorTagged(a) == a \in DOMAIN results /\ Truthy(Get(results[a], "error"))

\* C1: whenever an adapter's call ended with an exception or an error result (its
\* entry of the results carries a non-null error), the adapter's progress entry
\* ends the run with status error and an error message, never as completed.
C1_ErrorOutcomeEndsAsError ==
    (LaunchDone /\ has_context) =>
        \A a \in Adapters :
            ErrorTagged(a) => /\ Entry(a).status = "error"
                              /\ Truthy(Entry(a).error_message)

\* C2: when an adapter's call raises, the exception does not escape the
\* coordinator, the adapter gets an error-tagged entry of the results, and once
\* the coordinator is done every non-website adapter has been called and has its
\* result recorded.
C2_ExceptionIsolated ==
    \A a \in DOMAIN ended :
        ended[a].kind = "raise" =>
            /\ raised # Some(ended[a].msg)
            /\ a \in DOMAIN results
            /\ "error" \in DOMAIN results[a]
            /\ LaunchDone => \A b \in NonWebsite :
                                 b \in called /\ b \in DOMAIN ended /\ b \in DOMAIN results

\* C2 witness: a run that returned although perplexity raised, with a later
\* adapter's data in the results
C2_Witness ==
    /\ pc = "returned"
    /\ "perplexity" \in DOMAIN ended
    /\ ended["perplexity"].kind = "raise"
    /\ results["google_places"] = [name |-> Some("Inn 32"), website |-> Some(Url)]

\* C3: when the run returns after the caller's deadline has expired, every adapter
\* that was still pending or in progress at the deadline is marked error and
\* contributes no result of a completed call.
C3_DeadlineEndsUnfinished ==
    (pc = "returned" /\ deadline_expired /\ has_context) =>
        \A a \in unfinished_at_deadline :
            Entry(a).status = "error" /\ ~Succeeded(results[a])

\* an adapter call has been issued and has not ended
InFlight == called \ DOMAIN ended

\* C4: the non-website adapter calls are issued concurrently: while the call of
\* one adapter is in flight, the call of an adapter that has not been called yet
\* can be issued; it does not wait for the other call to end.
C4_CallsIssuedConcurrently ==
    \A a \in NonWebsite :
        (InFlight # {} /\ a \notin called) => ENABLED StartCall(a)

\* what the code does instead: at most one adapter call is in flight, and at
\* most one progress entry is in_progress
AtMostOneInFlight ==
    /\ Cardinality(InFlight) <= 1
    /\ Cardinality({i \in 1..Len(sources) : sources[i].status = "in_progress"}) <= 1

\* C5: research_hotel never raises, whatever the adapters return, and the
\* profile it returns carries _overall_confidence and _sources_used.
C5_NeverRaises ==
    /\ raised = None
    /\ pc = "returned" => {"_overall_confidence", "_sources_used"} \subseteq DOMAIN complete[1]

\* a query without its required name or city
Malformed(q) == ~Truthy(q.hotel_name) \/ ~Truthy(q.city)

\* C6: for a query missing the name or the city no adapter is ever called and no
\* progress entry ever leaves pending.
C6_MalformedQueryRejected ==
    Malformed(query) =>
        /\ called = {}
        /\ \A i \in 1..Len(sources) : sources[i].status = "pending"

\* C7: the results map _launch_parallel_research returns has exactly one entry
\* for each configured adapter, whatever the adapters did.
C7_OneEntryPerAdapter == LaunchDone => DOMAIN results = Adapters

\* C7 witness: a finished launch in which one adapter raised, one returned an
\* error result, one found nothing and the website adapter was not called
C7_Witness ==
    /\ LaunchDone
    /\ ended["perplexity"].kind = "raise"
    /\ ended["openai"] = Return([error |-> Some("OpenAI not configured")])
    /\ ended["google_places"].kind = "return_none"
    /\ "website" \notin called

\* the lifecycle pending -> in_progress -> (completed | error)
Lifecycle(old, new) ==
    \/ new = old
    \/ old = "pending" /\ new = "in_progress"
    \/ old = "in_progress" /\ new \in {"completed", "error"}

\* C8 as claimed: every progress entry's status changes only along
\* pending -> in_progress -> (completed | error).
C8_LifecycleOnly ==
    [][\A i \in 1..Len(sources) :
          /\ i <= Len(sources')
          /\ Lifecycle(sources[i].status, sources'[i].status)]_vars

\* C8 as amended: the same, except that the website entry goes from pending
\* straight to error in the step that skips the website adapter, which happens
\* only when neither perplexity's nor google_places' result holds a website URL.
C8_LifecycleOrWebsiteSkipped ==
    [][\A i \in 1..Len(sources) :
          /\ i <= Len(sources')
          /\ \/ Lifecycle(sources[i].status, sources'[i].status)
             \/ /\ sources[i].id = "website"
                /\ sources[i].status = "pending"
                /\ sources'[i].status = "error"
                /\ "website" \notin called'
                /\ ~Truthy(Get(results["perplexity"], "website"))
                /\ ~Truthy(Get(results["google_places"], "website"))]_vars

\* C8 witness: the website adapter was skipped and its entry is in error, next
\* to an entry that went through in_progress to completed
C8_Witness ==
    /\ has_context
    /\ LaunchDone
    /\ "website" \notin called
    /\ Entry("website").status = "error"
    /\ Entry("openai").status = "completed"

\* C9: the website adapter is called only after the calls of perplexity and
\* google_places have ended and only if one of their entries of the results
\* holds a website URL; and when the coordinator is done it has been called if
\* and only if one of them does.
C9_WebsiteCalledIffUrlFound ==
    LET found == \/ Truthy(Get(GetOr(results, "perplexity", EmptyDict), "website"))
                 \/ Truthy(Get(GetOr(results, "google_places", EmptyDict), "website"))
    IN  /\ "website" \in called => found /\ {"perplexity", "google_places"} \subseteq DOMAIN ended
        /\ LaunchDone => ("website" \in called <=> found)

\* C9 witness: the website adapter was called on a URL only google_places found
C9_Witness ==
    /\ "website" \in called
    /\ ~Truthy(Get(results["perplexity"], "website"))
    /\ Truthy(Get(results["google_places"], "website"))

\* C9 witness of the other direction: a finished launch without a URL and without
\* a call of the website adapter
C9_WitnessSkipped == LaunchDone /\ "website" \notin called

\* C10: with a context attached, the progress list holds exactly one entry per
\* configured adapter from the start of the run on, whatever the updates.
C10_EntriesFixed ==
    (has_context /\ pc # "start") =>
        /\ Len(sources) = Len(SourceIds)
        /\ \A i \in 1..Len(sources) : sources[i].id = SourceIds[i]

\* C10 witness: a finished run with a context in which three adapters ended in error
C10_Witness ==
    /\ has_context
    /\ pc = "returned"
    /\ Cardinality({i \in 1..Len(sources) : sources[i].status = "error"}) >= 3

-----------------------------------------------------------------------------
(* Properties of the merge pipeline *)

\* the merged profile of the recorded results
MergedOf(res) ==
    _merge_data_multi_source(
        GetOr(res, "perplexity", EmptyDict), GetOr(res, "openai", EmptyDict),
        GetOr(res, "anthropic", EmptyDict), GetOr(res, "gemini", EmptyDict),
        GetOr(res, "google_places", EmptyDict), GetOr(res, "website", EmptyDict))

\* the results in which every result with a non-null error has returned nothing
WithoutErrored(res) ==
    [k \in DOMAIN res |-> IF Get(res[k], "error") # None THEN EmptyDict ELSE res[k]]

\* C11: a result that carries a non-null error contributes no fields to the merge:
\* the merged profile of a run is the one the run would have had if every errored
\* source had returned nothing, even when the errored result carries field values.
C11_ErroredContributesNothing ==
    complete # None => MergedOf(results) = MergedOf(WithoutErrored(results))

\* `results` is a dict: its items in the order in which the adapters completed
RecordedIn(order, res) == [i \in 1..Len(order) |-> <<order[i], res[order[i]]>>]

\* results.get(key, {}) with a bug: the entry is taken by its position in the dict
ItemsGetByPosition(items, key) ==
    items[CHOOSE i \in 1..Len(SourceIds) : SourceIds[i] = key][2]

\* results.get(key, {}) on the items of the dict
ItemsGet(items, key) ==
    IF \E i \in 1..Len(items) : items[i][1] = key
    THEN items[CHOOSE i \in 1..Len(items) : items[i][1] = key][2]
    ELSE EmptyDict

\* phase 2 of research_hotel on the items of `results`
MergedFromItems(items) ==
    _merge_data_multi_source(
        ItemsGet(items, "perplexity"), ItemsGet(items, "openai"),
        ItemsGet(items, "anthropic"), ItemsGet(items, "gemini"),
        ItemsGet(items, "google_places"), ItemsGet(items, "website"))

\* every order in which the six adapters can complete
CompletionOrders ==
    {[i \in 1..Len(SourceIds) |-> perm[SourceIds[i]]] : perm \in Permutations(Adapters)}

ScalarFields ==
    {"hotel_name", "address", "phone", "website", "check_in_time", "check_out_time"}

\* the key under which a source reports a field: google_places has 'name'
KeyIn(a, field) == IF a = "google_places" /\ field = "hotel_name" THEN "name" ELSE field

\* what a source reported for a field in the recorded results
ReportedBy(a, field) == Get(GetOr(results, a, EmptyDict), KeyIn(a, field))

\* the sources that reported the value v for a field
Reporters(field, v) == {a \in Adapters : ReportedBy(a, field) = v}

AuthorityOrder(field) ==
    CASE field \in {"address", "phone"} ->
           <<"google_places", "perplexity", "anthropic", "openai", "website">>
      [] field = "website" ->
           <<"perplexity", "google_places", "anthropic", "openai", "website">>
      [] field = "hotel_name" ->
           <<"google_places", "perplexity", "openai", "anthropic", "gemini", "website">>
      [] OTHER -> <<"perplexity", "openai", "anthropic", "gemini">>

\* no value of the field is reported by two sources
NoConsensus(field) ==
    \A a \in Adapters :
        Truthy(ReportedBy(a, field)) => Reporters(field, ReportedBy(a, field)) = {a}

\* the value of the first source of the authority order that has one, else null
FirstInAuthority(field) ==
    LET order == AuthorityOrder(field)
        having == {i \in 1..Len(order) : Truthy(ReportedBy(order[i], field))}
    IN  IF having = {} THEN None
        ELSE ReportedBy(order[CHOOSE i \in having : \A j \in having : i <= j], field)

\* C14: for a scalar identity field on which no two sources agree, the merge
\* resolves the field to the value of the first source of the field's authority
\* order that has a value (google_places first for address and phone, perplexity
\* first for website), and to null when no source has one.
C14_AuthorityOrderFallback ==
    complete # None =>
        \A field \in ScalarFields :
            NoConsensus(field) => MergedOf(results)[field] = FirstInAuthority(field)

\* only openai and anthropic report an address, different ones: anthropic's wins
C14_Witness ==
    /\ pc = "returned"
    /\ ReportedBy("openai", "address") = Some("v1")
    /\ ReportedBy("anthropic", "address") = Some("v2")
    /\ \A a \in Adapters \ {"openai", "anthropic"} : ~Truthy(ReportedBy(a, "address"))
    /\ complete[1].address = Some("v2")

\* the descriptions the sources reported
DescriptionCandidates ==
    {ReportedBy(a, "description") : a \in Adapters} \ {None, Some("")}

\* d is a longest of the eligible descriptions, null when there is none
LongestAmong(eligible, d) ==
    IF eligible = {} THEN d = None
    ELSE d \in eligible /\ \A e \in eligible : Len(e[1]) <= Len(d[1])

\* C15, as stated: the merged description is the longest candidate among those of
\* at least 50 characters: shorter candidates are discarded, every candidate of 50
\* characters or more is eligible, and without an eligible one it is null.
C15_LongestOfAtLeastMinimum ==
    complete # None =>
        LongestAmong({d \in DescriptionCandidates : Len(d[1]) >= MinDescriptionLen},
                     MergedOf(results).description)

\* C15, amended: the merged description is the longest candidate among those of
\* more than 50 characters: candidates of 50 characters or fewer are discarded,
\* and without an eligible one it is null.
C15_LongestOverMinimum ==
    complete # None =>
        LongestAmong({d \in DescriptionCandidates : Len(d[1]) > MinDescriptionLen},
                     MergedOf(results).description)

\* candidates of 40, 50, 51 and 80 characters: the one of 80 is chosen
C15_Witness ==
    /\ pc = "returned"
    /\ DescriptionCandidates =
         {Some(Description40), Some(Description50), Some(Description51), Some(Description80b)}
    /\ complete[1].description = Some(Description80b)

\* the room types of the sources other than perplexity, in the fixed source order
RemainingRooms ==
    Flatten(<<GetOr(GetOr(results, "openai", EmptyDict), "room_types", <<>>),
              GetOr(GetOr(results, "anthropic", EmptyDict), "room_types", <<>>),
              GetOr(GetOr(results, "gemini", EmptyDict), "room_types", <<>>),
              GetOr(GetOr(results, "website", EmptyDict), "room_types", <<>>)>>)

\* the normalized name of a room a source lists: of a record its 'name', of a
\* plain string the string; "" when it has none
NormalizedName(room) ==
    IF ~IsDict(room) THEN LowerStrip(room.str)
    ELSE IF Truthy(Get(room, "name")) THEN LowerStrip(room.name[1]) ELSE ""

\* the sub-fields of a room record
RoomSubFields == {"beds", "capacity", "description"}

\* the record rec holds, for the room name, the first non-empty value of every
\* sub-field among the rooms of that name
FirstWriteWins(rec, name, rooms) ==
    \A key \in RoomSubFields :
        LET having == {i \in 1..Len(rooms) :
                         /\ NormalizedName(rooms[i]) = name
                         /\ IsDict(rooms[i])
                         /\ RoomValueTruthy(key, Get(rooms[i], key))}
        IN  IF having = {} THEN ~RoomValueTruthy(key, Get(rec, key))
            ELSE Get(rec, key) = rooms[CHOOSE i \in having : \A j \in having : i <= j][key]

\* the list holds one record per distinct normalized name of the rooms, each
\* filled first-write-wins
OnePerName(list, rooms) ==
    LET names == {NormalizedName(rooms[i]) : i \in 1..Len(rooms)} \ {""}
    IN  /\ Len(list) = Cardinality(names)
        /\ \A name \in names :
             \E i \in 1..Len(list) :
                 /\ NormalizedName(list[i]) = name
                 /\ FirstWriteWins(list[i], name, rooms)

\* C16: if perplexity returned one or more room-type records the merged room types
\* are exactly that list; otherwise they hold one record per distinct normalized
\* room name (lower-cased, trimmed) found in the remaining sources, each sub-field
\* taking the first non-empty value in the fixed source order.
C16_RoomTypesPreferWebSearch ==
    complete # None =>
        LET perplexity_rooms == GetOr(GetOr(results, "perplexity", EmptyDict), "room_types", <<>>)
        IN  IF perplexity_rooms # <<>>
            THEN complete[1].room_types = perplexity_rooms
            ELSE OnePerName(complete[1].room_types, RemainingRooms)

\* the room counts the sources reported, in ascending order
ReportedCounts ==
    LET reported == SelectSeq([i \in 1..Len(SourceIds) |-> ReportedBy(SourceIds[i], "total_rooms")],
                              IsNumber)
    IN  Sorted([i \in 1..Len(reported) |-> reported[i][1]])

\* C17, as stated: the merged total room count is the median of the reported
\* numbers, for an even number of values the midpoint of the two middle ones; one
\* value is returned unchanged and without a value the count is null.
C17_MedianExact ==
    complete # None =>
        LET nums == ReportedCounts
            n == Len(nums)
            total == complete[1].total_rooms
        IN  IF n = 0 THEN total = None
            ELSE /\ total # None
                 /\ IF n % 2 = 1 THEN total[1] = nums[(n + 1) \div 2]
                    ELSE 2 * total[1] = nums[n \div 2] + nums[n \div 2 + 1]

\* C17, amended: as above, but for an even number of values the midpoint of the
\* two middle ones is truncated to a whole number.
C17_MedianTruncated ==
    complete # None =>
        LET nums == ReportedCounts
            n == Len(nums)
            total == complete[1].total_rooms
        IN  IF n = 0 THEN total = None
            ELSE /\ total # None
                 /\ IF n % 2 = 1 THEN total[1] = nums[(n + 1) \div 2]
                    ELSE total[1] = (nums[n \div 2] + nums[n \div 2 + 1]) \div 2

\* two sources report 17 and 18 rooms: the merged count is 17
C17_Witness ==
    /\ pc = "returned"
    /\ ReportedCounts = <<17, 18>>
    /\ complete[1].total_rooms = Some(17)

\* the amenities a source reported
ReportedAmenities(a) ==
    LET list == GetOr(GetOr(results, a, EmptyDict), "amenities", <<>>)
    IN  {list[i] : i \in 1..Len(list)}

\* C18: the merged amenities are the union of the amenities lists of all sources:
\* every amenity some source reported is among them, strings that differ only in
\* case being distinct amenities, and nothing is among them that no source reported.
\* (list(set(...)) holds each element once; the model keeps the set.)
C18_AmenitiesAreUnion ==
    complete # None =>
        /\ \A a \in Adapters : ReportedAmenities(a) \subseteq complete[1].amenities
        /\ \A x \in complete[1].amenities : \E a \in Adapters : x \in ReportedAmenities(a)

\* perplexity reports WiFi and Pool, openai wifi, anthropic Pool twice, the website
\* Parking: the merged amenities are the four distinct strings
C18_Witness ==
    /\ pc = "returned"
    /\ ReportedAmenities("perplexity") = {"WiFi", "Pool"}
    /\ ReportedAmenities("openai") = {"wifi"}
    /\ ReportedAmenities("website") = {"Parking"}
    /\ complete[1].amenities = {"WiFi", "wifi", "Pool", "Parking"}

\* the fields of the returned profile
ProfileFields ==
    {"hotel_name", "address", "phone", "website", "description", "room_types", "amenities",
     "latitude", "longitude", "photos", "total_rooms", "check_in_time", "check_out_time",
     "policies", "timezone", "currency", "tax_rate", "language"}

\* the provenance tag of a field: '_source_' + field
TagOf(field) ==
    CASE field = "hotel_name" -> "_source_hotel_name"
      [] field = "address" -> "_source_address"
      [] field = "phone" -> "_source_phone"
      [] field = "website" -> "_source_website"
      [] field = "description" -> "_source_description"
      [] field = "room_types" -> "_source_room_types"
      [] field = "amenities" -> "_source_amenities"
      [] field = "latitude" -> "_source_latitude"
      [] field = "longitude" -> "_source_longitude"
      [] field = "photos" -> "_source_photos"
      [] field = "total_rooms" -> "_source_total_rooms"
      [] field = "check_in_time" -> "_source_check_in_time"
      [] field = "check_out_time" -> "_source_check_out_time"
      [] field = "policies" -> "_source_policies"
      [] field = "timezone" -> "_source_timezone"
      [] field = "currency" -> "_source_currency"
      [] field = "tax_rate" -> "_source_tax_rate"
      [] field = "language" -> "_source_language"

\* the profile holds a non-null value for the field; room_types, amenities and
\* policies, once set, are a list or a dict, never None
NonNull(profile, field) ==
    /\ field \in DOMAIN profile
    /\ \/ field \in {"room_types", "amenities", "policies"}
       \/ profile[field] # None

\* C19: every field of the returned profile with a non-null value carries a
\* provenance tag _source_<field>, and a field whose value is null carries none.
C19_ProvenanceTags ==
    complete # None =>
        \A field \in ProfileFields :
            NonNull(complete[1], field) <=> TagOf(field) \in DOMAIN complete[1]

\* C20: whatever the adapters return and however many succeed, the returned
\* _overall_confidence lies between 0.0 and 1.0 (the source confidences being
\* between 0 and 1).
C20_ConfidenceInUnitInterval ==
    complete # None =>
        /\ 0 <= complete[1]._overall_confidence
        /\ complete[1]._overall_confidence <= ConfidenceScale

\* every adapter but gemini found everything, perplexity and the website with
\* confidences 1.0 and 0.9: the overall confidence is 19390/21000
C20_Witness ==
    /\ pc = "returned"
    /\ complete[1]._sources_used =
         <<"perplexity", "openai", "anthropic", "google_places", "website">>
    /\ results["perplexity"].confidence = Some(100)
    /\ results["website"].confidence = Some(90)
    /\ complete[1]._overall_confidence = 19390

-----------------------------------------------------------------------------
(* Properties of the confidence score and of the defaults *)

\* the adapters whose result carries a confidence
ReportingConfidence == {a \in DOMAIN results : Get(results[a], "confidence") # None}

\* the confidence a result reports, 0 when it reports none
ReportedConfidence(a) ==
    IF a \in ReportingConfidence THEN results[a].confidence[1] ELSE 0

RECURSIVE SumConfidence(_)
SumConfidence(S) ==
    IF S = {} THEN 0
    ELSE LET a == CHOOSE x \in S : TRUE
         IN  ReportedConfidence(a) + SumConfidence(S \ {a})

\* the source and the completeness components of the score of the returned profile
SourceComponent == SourceUnit * Cardinality({a \in DOMAIN results : Succeeded(results[a])})

CompletenessComponent ==
    FieldUnit * Cardinality({f \in critical_fields : FieldPresent(complete[1], f)})

\* C21, as stated: the self-reported component of the score is 0.2 times the average
\* of the confidences of the sources that report one, and 0 when none reports one
C21_AverageOfReporting ==
    (pc = "returned" /\ complete[1]._overall_confidence < ConfidenceScale) =>
        complete[1]._overall_confidence - SourceComponent - CompletenessComponent
            = IF ReportingConfidence = {} THEN 0
              ELSE (2 * ConfidenceUnit * SumConfidence(ReportingConfidence))
                       \div Cardinality(ReportingConfidence)

\* C21, amended: the self-reported component of the score is 0.2 times half the sum
\* of the confidences of perplexity and website, a missing one counted as 0
C21_HalfOfPerplexityPlusWebsite ==
    (pc = "returned" /\ complete[1]._overall_confidence < ConfidenceScale) =>
        complete[1]._overall_confidence - SourceComponent - CompletenessComponent
            = ConfidenceUnit * (ReportedConfidence("perplexity") + ReportedConfidence("website"))

\* perplexity reports 85%, the website was not scraped: the component is 0.085
C21_Witness ==
    /\ pc = "returned"
    /\ results["perplexity"].confidence = Some(85)
    /\ results["website"] = EmptyDict
    /\ complete[1]._overall_confidence - SourceComponent - CompletenessComponent
           = 85 * ConfidenceUnit

\* the self-reported component of the score as the code computes it
SelfReportedComponent ==
    ConfidenceUnit * (ReportedConfidence("perplexity") + ReportedConfidence("website"))

\* the profile holds a value for the field that is neither null nor empty
HasValue(profile, field) ==
    /\ field \in DOMAIN profile
    /\ CASE field = "amenities" -> profile[field] # {}
         [] field = "room_types" -> profile[field] # <<>>
         [] OTHER -> profile[field] \notin {None, Some("")}

\* C22, as stated: the completeness component of the score is 0.4 times the fraction
\* of the seven critical fields that are non-null in the profile
C22_CompletenessCountsNonNull ==
    (pc = "returned" /\ complete[1]._overall_confidence < ConfidenceScale) =>
        complete[1]._overall_confidence - SourceComponent - SelfReportedComponent
            = FieldUnit * Cardinality({f \in critical_fields : NonNull(complete[1], f)})

\* C22, amended: the completeness component of the score is 0.4 times the fraction
\* of the seven critical fields that hold a value that is neither null nor empty
C22_CompletenessCountsValues ==
    (pc = "returned" /\ complete[1]._overall_confidence < ConfidenceScale) =>
        complete[1]._overall_confidence - SourceComponent - SelfReportedComponent
            = FieldUnit * Cardinality({f \in critical_fields : HasValue(complete[1], f)})

\* a profile whose amenities and room types are empty lists: they are not counted
C22_Witness ==
    /\ pc = "returned"
    /\ complete[1].amenities = {}
    /\ complete[1].room_types = <<>>
    /\ complete[1].address # None
    /\ complete[1]._overall_confidence - SourceComponent - SelfReportedComponent
           = FieldUnit * Cardinality({f \in critical_fields : HasValue(complete[1], f)})
    /\ Cardinality({f \in critical_fields : HasValue(complete[1], f)}) \in 1..5

\* the fields of the profile that only research fills
ResearchFields ==
    {"hotel_name", "address", "phone", "website", "description", "room_types", "amenities",
     "latitude", "longitude", "photos", "total_rooms", "policies"}

\* the profile holds a researched value for the field: not null, and not an empty
\* list or dict
Researched(profile, field) ==
    /\ field \in DOMAIN profile
    /\ CASE field = "amenities" -> profile[field] # {}
         [] field = "policies" -> DOMAIN profile[field] # {}
         [] OTHER -> profile[field] # <<>>

\* C23: when no source returns usable data (_sources_used is empty: every result
\* is an error or empty), _overall_confidence is exactly 0 and no research field
\* of the returned profile has a value.
C23_NothingUsableNothingResearched ==
    (pc = "returned" /\ SourcesUsed(results) = <<>>) =>
        /\ complete[1]._overall_confidence = 0
        /\ \A f \in ResearchFields : ~Researched(complete[1], f)

\* the fields every profile must hold after _apply_defaults
AlwaysRequired ==
    {"currency", "tax_rate", "timezone", "check_in_time", "check_out_time", "language"}

\* C24: after _apply_defaults the always-required fields currency, tax_rate,
\* timezone, check_in_time, check_out_time and language are all non-null in the
\* returned profile, also when research found nothing and no GPS coordinates.
C24_RequiredFieldsDefaulted ==
    pc = "returned" =>
        \A f \in AlwaysRequired : f \in DOMAIN complete[1] /\ complete[1][f] # None

\* the state code of the query as the table is looked up with it
SuppliedState == IF Truthy(query.state) THEN Upper(query.state[1]) ELSE ""

\* C25: research finds no currency and no tax rate, and the returned profile holds
\* currency USD and the rate of the supplied state in the 50-entry table, as a
\* percentage (FL 13.0, NY 14.8, CA 10.5, here in tenths of a percent); a missing
\* or unknown state gets 10.0.
C25_StateTaxRateOrFallback ==
    /\ Cardinality(DOMAIN us_tax_rates) = 50
    /\ pc = "returned" =>
        /\ complete[1].currency = Some("USD")
        /\ complete[1]._source_currency = Some("Location inference")
        /\ complete[1]._source_tax_rate = Some("Location inference")
        /\ SuppliedState = "FL" => complete[1].tax_rate = Some(130)
        /\ SuppliedState = "NY" => complete[1].tax_rate = Some(148)
        /\ SuppliedState = "CA" => complete[1].tax_rate = Some(105)
        /\ SuppliedState \in DOMAIN us_tax_rates =>
               complete[1].tax_rate = Some(us_tax_rates[SuppliedState])
        /\ SuppliedState \notin DOMAIN us_tax_rates => complete[1].tax_rate = Some(100)

\* a run for Florida on which every adapter failed: USD and 13.0
C25_Witness ==
    /\ pc = "returned"
    /\ query.state = Some("FL")
    /\ SourcesUsed(results) = <<>>
    /\ complete[1].currency = Some("USD")
    /\ complete[1].tax_rate = Some(130)

\* C26: the merge never mutates a source result: when research_hotel merges, also
\* through the room-type aggregation fallback, every adapter's result and every
\* room record in it stay what the adapter returned.
C26_MergeLeavesResults == [][pc = "merge" => results' = results]_vars

\* the entry of an adapter in a list of progress entries (None when it has none)
EntryIn(srcs, a) ==
    LET i == FirstMatch(srcs, a) IN IF i = 0 THEN None ELSE Some(srcs[i])

\* C27: progress updates never overwrite one another: whatever the updates and the
\* saves of other writers of the same context, the saved entry of each adapter
\* holds the status, data_found and error message of that adapter's latest update
\* (`sources`, which the orchestrator updates in order, holds the latest updates).
C27_NoLostUpdate ==
    pc # "start" => \A a \in Adapters : EntryIn(saved, a) = EntryIn(sources, a)

\* the statuses a finished call ends in
Terminal == {"completed", "error"}

\* C28: when research_hotel returns, every progress entry has a terminal status,
\* completed or error: none is left pending or in_progress, whichever adapters
\* failed, found nothing or were skipped.
C28_AllTerminalAtReturn ==
    (pc = "returned" /\ has_context) =>
        /\ Len(sources) = Len(SourceIds)
        /\ \A i \in 1..Len(sources) : sources[i].status \in Terminal

\* a returned run in which an adapter raised, one found nothing and the website
\* was skipped
C28_Witness ==
    /\ pc = "returned"
    /\ has_context
    /\ "website" \notin called
    /\ ended["perplexity"].kind = "raise"
    /\ ended["google_places"].kind = "return_none"
    /\ \A i \in 1..Len(sources) : sources[i].status = "error"

\* research_hotel has ended: it returned the profile or an exception left it
RunEnded == pc \in {"returned", "raised"}

\* the flag is True from before the first adapter call and while an entry is
\* pending or in_progress
FlagSetWhileResearching ==
    has_context =>
        /\ called # {} => research_in_progress # None
        /\ (\E i \in 1..Len(sources) : sources[i].status \notin Terminal)
               => research_in_progress = Some(TRUE)

\* C29: with a context, _research_in_progress is set to True before any adapter is
\* called, stays True while an adapter is pending or in_progress, and is False once
\* the run of research_hotel has ended, also when adapters failed or returned
\* malformed data (a run that has ended with the flag still True never sets it).
C29_FlagClearedInEveryRun ==
    /\ FlagSetWhileResearching
    /\ (has_context /\ RunEnded) => research_in_progress = Some(FALSE)

\* the provenance tag _apply_defaults writes with the default of a field
DefaultTag(field) ==
    CASE field = "timezone" -> "_source_timezone"
      [] field = "currency" -> "_source_currency"
      [] field = "tax_rate" -> "_source_tax_rate"
      [] field = "check_in_time" -> "_source_check_in"
      [] field = "check_out_time" -> "_source_check_out"
      [] field = "language" -> "_source_language"

\* C30: _apply_defaults never changes a field that has a value in the merged
\* profile: every key of the merged profile, research field or provenance tag, is
\* the same in the returned profile unless it is a defaulted field that was null,
\* and a default provenance tag is written only for a field that was absent or null.
C30_DefaultsOnlyFillGaps ==
    [][(pc = "merge" /\ pc' = "returned") =>
         LET merged == MergedOf(results)
             profile == complete'[1]
         IN  /\ \A k \in DOMAIN merged :
                    \/ k \in AlwaysRequired /\ merged[k] = None
                    \/ k \in DOMAIN profile /\ profile[k] = merged[k]
             /\ \A f \in AlwaysRequired :
                    DefaultTag(f) \in DOMAIN profile =>
                        f \notin DOMAIN merged \/ merged[f] = None]_vars

\* a profile whose check-in time was researched and whose check-out time is the
\* default
C30_Witness ==
    /\ pc = "returned"
    /\ complete[1].check_in_time = Some("v2")
    /\ "_source_check_in" \notin DOMAIN complete[1]
    /\ complete[1].check_out_time = Some("11:00 AM")
    /\ complete[1]._source_check_out = Some("Industry standard")

=============================================================================
